---- MODULE Spec2Model ----
(***************************************************************************)
(* Model of the GraphQL resolver map of server/server.js over its two      *)
(* stores: the PostgreSQL table public.dogs (server/models/dogs.sql) and   *)
(* the MongoDB collection 'users' (mongoose model User).                   *)
(*                                                                         *)
(* Every `await` of a mutation is an interleaving point: the resolver is   *)
(* split into the step that issues the store call and one step per outcome *)
(* of the call (resolved / rejected), the latter running the rest of the   *)
(* resolver up to its next await or its return.  A resolver that only      *)
(* reads makes one store call, which sees the store at one instant: it is  *)
(* one step per outcome of that call.                                      *)
(***************************************************************************)
EXTENDS Integers, Sequences, FiniteSets

(***************************************************************************)
(* Bounds of the model.                                                    *)
(***************************************************************************)
\* number of createDog requests in one behaviour
MaxDogCalls == 2
\* number of createUser requests in one behaviour
MaxUserCalls == 2

(***************************************************************************)
(* Program constants.                                                      *)
(***************************************************************************)
\* "breed" varchar (60)
BreedLimit == 60

\* null / undefined, for locals and fields that hold objects
NULL == [null |-> TRUE]

VARIABLES
    dogs,        \* rows of table public.dogs, in insertion order
    dogs_id_seq, \* the sequence behind "id" serial: the next value it hands out
    users,       \* documents of the Mongo collection 'users', in natural order
    nextOid,     \* the next ObjectId mongoose generates for a new User
    userCall,    \* createUser requests: position, local `user`, caught error, result
    dogCall,     \* createDog requests: position, arguments, locals, caught errors, result
    response     \* the last query / field resolution and what the caller received

vars == <<dogs, dogs_id_seq, users, nextOid, userCall, dogCall, response>>

DogCalls == 1..MaxDogCalls
UserCalls == 1..MaxUserCalls

Range(s) == {s[i] : i \in 1..Len(s)}

(***************************************************************************)
(* Strings.  A breed is abstracted to its length in characters, which is   *)
(* what varchar(60) looks at (breeds here do not end in spaces, which      *)
(* PostgreSQL would cut off rather than reject).  A walkerId string is     *)
(* abstracted to its form and the ObjectId its characters spell:           *)
(*   "hex"  24 lower-case hex characters (what ObjectId.toString() gives), *)
(*   "HEX"  the same 24 hex characters in upper case,                      *)
(*   "bad"  a string that is neither 24 hex characters nor 12 bytes.       *)
(***************************************************************************)
DogNames == {"Ponzu"}
UserNames == {"Alice"}

\* breeds of 60 and of 61 characters
Breeds == {BreedLimit, BreedLimit + 1}

\* an ObjectId that no User was ever constructed with
NoSuchOid == 0

BadString == [form |-> "bad", oid |-> NoSuchOid]

\* the walkerId strings a caller can supply: either spelling of an ObjectId
\* `known` to it, the hex of an ObjectId that was never generated, or a
\* string that is not an ObjectId at all
WalkerIdStrings(known) ==
    { [form |-> f, oid |-> o] : f \in {"hex", "HEX"}, o \in known }
    \cup {[form |-> "hex", oid |-> NoSuchOid], BadString}

\* new ObjectID(walkerId): hex is read case-insensitively; any other string
\* makes the constructor throw
ObjectIDThrows(s) == s.form = "bad"
ObjectID(s) == s.oid

(***************************************************************************)
(* PostgreSQL: public.dogs                                                 *)
(***************************************************************************)
\* storing into varchar(60): a value of more than 60 characters is an error
VarcharRejects(breed) == breed > BreedLimit

\* (mutant) the walkerId is stored as the ObjectId it parses to prints
\* (new ObjectID(walkerId).toString()) instead of as it was given
InsertedRow_normalised(name, breed, walkerId) ==
    [id |-> dogs_id_seq, name |-> name, breed |-> breed,
     walkerId |-> [form |-> "hex", oid |-> ObjectID(walkerId)]]

\* INSERT INTO public.dogs("name", "breed", "walkerId") VALUES($1, $2, $3) RETURNING *
InsertedRow(name, breed, walkerId) ==
    [id |-> dogs_id_seq, name |-> name, breed |-> breed,
     walkerId |-> walkerId]

\* SELECT * FROM dogs
SelectAll == dogs

\* (mutant) the WHERE clause is lost
SelectIn_all(ids) == dogs

\* SELECT * FROM dogs WHERE id IN (...)
SelectIn(ids) == SelectSeq(dogs, LAMBDA r : r.id \in ids)

(***************************************************************************)
(* MongoDB: collection 'users'                                             *)
(***************************************************************************)
\* new User({ name, dogIds: [] })
NewUser(name) == [_id |-> nextOid, name |-> name, dogIds |-> <<>>]

\* (mutant) the $push applied twice
UpdateOnePush_twice(oid, id) ==
    [i \in 1..Len(users) |->
        IF users[i]._id = oid
        THEN [users[i] EXCEPT !.dogIds = Append(Append(@, id), id)]
        ELSE users[i]]

\* (mutant) the array is written back whole ($set of a list built from
\* the new id alone) instead of being pushed onto in the store
UpdateOnePush_overwrite(oid, id) ==
    [i \in 1..Len(users) |->
        IF users[i]._id = oid
        THEN [users[i] EXCEPT !.dogIds = <<id>>]
        ELSE users[i]]

\* (mutant) the id is put in front ($push with $position: 0)
UpdateOnePush_front(oid, id) ==
    [i \in 1..Len(users) |->
        IF users[i]._id = oid
        THEN [users[i] EXCEPT !.dogIds = <<id>> \o @]
        ELSE users[i]]

\* (mutant) the filter is lost (updateMany({}, ...)): every document is
\* pushed onto
UpdateOnePush_any(oid, id) ==
    [i \in 1..Len(users) |-> [users[i] EXCEPT !.dogIds = Append(@, id)]]

\* User.updateOne({ _id: oid }, { $push: { dogIds: id } })
UpdateOnePush(oid, id) ==
    [i \in 1..Len(users) |->
        IF users[i]._id = oid
        THEN [users[i] EXCEPT !.dogIds = Append(@, id)]
        ELSE users[i]]

\* User.findOne({ dogId: id }): the first document whose field `dogId`
\* equals id, or null (documents carry the fields of userSchema, name and
\* dogIds, and their _id)
FindOneByDogId(id) ==
    LET hits == SelectSeq(users,
                    LAMBDA u : "dogId" \in DOMAIN u /\ u["dogId"] = id)
    IN IF hits = <<>> THEN NULL ELSE Head(hits)

(***************************************************************************)
(* Initial state: both stores empty, no request made.                      *)
(***************************************************************************)
IdleUserCall == [pc |-> "idle", user |-> NULL, caught |-> "none", result |-> NULL]
IdleDogCall ==
    [pc |-> "idle", name |-> "", breed |-> 0, walkerId |-> NULL,
     data |-> NULL, dog |-> NULL, caughtQuery |-> "none", caughtUpdate |-> "none",
     updateIssued |-> FALSE, result |-> NULL]
NoResponse == [op |-> "none"]

Init ==
    /\ dogs = <<>>
    /\ dogs_id_seq = 1
    /\ users = <<>>
    /\ nextOid = 1
    /\ userCall = [u \in UserCalls |-> IdleUserCall]
    /\ dogCall = [c \in DogCalls |-> IdleDogCall]
    /\ response = NoResponse

\* what a resolver hands back to its caller
Returned(v) == [ok |-> TRUE, value |-> v]
Thrown(e) == [ok |-> FALSE, error |-> e]

\* requests are numbered in the order they arrive
InArrivalOrder(calls, i) == IF i = 1 THEN TRUE ELSE calls[i - 1].pc # "idle"

(***************************************************************************)
(* Mutation.createUser                                                     *)
(***************************************************************************)
\* const user = new User({ name, dogIds: [] }); await user.save() is issued
createUser(u, name) ==
    /\ userCall[u].pc = "idle"
    /\ InArrivalOrder(userCall, u)
    /\ userCall' = [userCall EXCEPT ![u] =
                        [@ EXCEPT !.pc = "save", !.user = NewUser(name)]]
    /\ nextOid' = nextOid + 1
    /\ UNCHANGED <<dogs, dogs_id_seq, users, dogCall, response>>

\* user.save() resolved: the document is in the collection; return user
createUser_saveResolved(u) ==
    /\ userCall[u].pc = "save"
    /\ users' = Append(users, userCall[u].user)
    /\ userCall' = [userCall EXCEPT ![u] =
                        [@ EXCEPT !.pc = "done", !.user = NULL,
                                  !.result = Returned(userCall[u].user)]]
    /\ UNCHANGED <<dogs, dogs_id_seq, nextOid, dogCall, response>>

\* user.save() rejected: catch (e) logs e.stack; return user
createUser_saveRejected(u) ==
    /\ userCall[u].pc = "save"
    /\ userCall' = [userCall EXCEPT ![u] =
                        [@ EXCEPT !.pc = "done", !.user = NULL,
                                  !.caught = "MongoError",
                                  !.result = Returned(userCall[u].user)]]
    /\ UNCHANGED <<dogs, dogs_id_seq, users, nextOid, dogCall, response>>

\* the ObjectIds callers know: those of the User objects createUser returned
KnownOids ==
    {userCall[u].result.value._id :
        u \in {v \in UserCalls : userCall[v].pc = "done"}}

(***************************************************************************)
(* Mutation.createDog                                                      *)
(***************************************************************************)
\* the INSERT is issued with createQueryParams = [name, breed, walkerId]
createDog(c, name, breed, walkerId) ==
    /\ dogCall[c].pc = "idle"
    /\ InArrivalOrder(dogCall, c)
    /\ dogCall' = [dogCall EXCEPT ![c] =
                        [@ EXCEPT !.pc = "query", !.name = name,
                                  !.breed = breed, !.walkerId = walkerId]]
    /\ UNCHANGED <<dogs, dogs_id_seq, users, nextOid, userCall, response>>

\* a resolver that has returned or thrown: its locals are gone; what stays
\* is what it logged from its catch blocks and what its caller received
Finished(call, result) ==
    [IdleDogCall EXCEPT !.pc = "done", !.caughtQuery = call.caughtQuery,
                        !.caughtUpdate = call.caughtUpdate,
                        !.updateIssued = call.updateIssued,
                        !.result = result]

\* after the INSERT resolved: dog = data.rows[0]; then, inside the second
\* try, new ObjectID(walkerId) either throws (caught; return dog) or
\* User.updateOne is issued
AfterInsert(call, row) ==
    IF ObjectIDThrows(call.walkerId)
    THEN Finished([call EXCEPT !.caughtUpdate = "ObjectIDError"],
                  Returned(row))
    ELSE [call EXCEPT !.pc = "updateOne", !.data = row, !.dog = row,
                      !.updateIssued = TRUE]

\* dogDB.query(createQuery, createQueryParams) resolved with the new row
createDog_queryResolved(c) ==
    /\ dogCall[c].pc = "query"
    /\ ~VarcharRejects(dogCall[c].breed)
    /\ LET row == InsertedRow(dogCall[c].name, dogCall[c].breed,
                              dogCall[c].walkerId)
       IN /\ dogs' = Append(dogs, row)
          /\ dogCall' = [dogCall EXCEPT ![c] = AfterInsert(dogCall[c], row)]
    /\ dogs_id_seq' = dogs_id_seq + 1
    /\ UNCHANGED <<users, nextOid, userCall, response>>

\* (mutant) data is guarded (data && data.rows[0]): the resolver goes on
\* with dog = null and returns it
AfterInsertError_swallowed(call, e) ==
    Finished([call EXCEPT !.caughtQuery = e], Returned(NULL))

\* (mutant) data is guarded and the update is issued for a dog that was
\* never inserted
AfterInsertError_continues(call, e) ==
    [call EXCEPT !.pc = "updateOne", !.caughtQuery = e, !.updateIssued = TRUE,
                 !.dog = [id |-> 0, name |-> call.name, breed |-> call.breed,
                          walkerId |-> call.walkerId]]

\* after the INSERT rejected: catch (e) logs e and leaves data = null, so
\* dog = data.rows[0] throws a TypeError out of the resolver
AfterInsertError(call, e) ==
    Finished([call EXCEPT !.caughtQuery = e], Thrown("TypeError"))

\* the errors dogDB.query can reject the INSERT with
InsertErrors(breed) ==
    {"store-unavailable"} \cup
    (IF VarcharRejects(breed) THEN {"write-rejected"} ELSE {})

\* dogDB.query(createQuery, createQueryParams) rejected; a rejected write
\* has drawn its id from the sequence, which is never given back
createDog_queryRejected(c, e) ==
    /\ dogCall[c].pc = "query"
    /\ e \in InsertErrors(dogCall[c].breed)
    /\ dogCall' = [dogCall EXCEPT ![c] = AfterInsertError(dogCall[c], e)]
    /\ dogs_id_seq' = IF e = "write-rejected" THEN dogs_id_seq + 1
                                               ELSE dogs_id_seq
    /\ UNCHANGED <<dogs, users, nextOid, userCall, response>>

\* User.updateOne resolved ($push applied to the matching document, if any);
\* return dog
createDog_updateResolved(c) ==
    /\ dogCall[c].pc = "updateOne"
    /\ users' = UpdateOnePush(ObjectID(dogCall[c].walkerId), dogCall[c].dog.id)
    /\ dogCall' = [dogCall EXCEPT ![c] =
                        Finished(dogCall[c], Returned(dogCall[c].dog))]
    /\ UNCHANGED <<dogs, dogs_id_seq, nextOid, userCall, response>>

\* User.updateOne rejected: catch (e) logs e.stack; return dog
createDog_updateRejected(c) ==
    /\ dogCall[c].pc = "updateOne"
    /\ dogCall' = [dogCall EXCEPT ![c] =
                        Finished([dogCall[c] EXCEPT !.caughtUpdate = "MongoError"],
                                 Returned(dogCall[c].dog))]
    /\ UNCHANGED <<dogs, dogs_id_seq, users, nextOid, userCall, response>>

(***************************************************************************)
(* Query.users, Query.dogs                                                 *)
(***************************************************************************)
\* users: () => User.find()
Query_users ==
    /\ response' = [op |-> "users", result |-> Returned(users)]
    /\ UNCHANGED <<dogs, dogs_id_seq, users, nextOid, userCall, dogCall>>

\* User.find() rejected: nothing catches it
Query_users_rejected ==
    /\ response' = [op |-> "users", result |-> Thrown("MongoError")]
    /\ UNCHANGED <<dogs, dogs_id_seq, users, nextOid, userCall, dogCall>>

\* (mutant) reads wait for the createDog requests in flight (a lock held
\* from the INSERT to the update)
Query_dogs_locked ==
    /\ \A c \in DogCalls : dogCall[c].pc \in {"idle", "done"}
    /\ response' = [op |-> "dogs", caught |-> "none",
                    result |-> Returned(SelectAll)]
    /\ UNCHANGED <<dogs, dogs_id_seq, users, nextOid, userCall, dogCall>>

\* dogs: SELECT * FROM dogs resolved; return dogData.rows
Query_dogs ==
    /\ response' = [op |-> "dogs", caught |-> "none",
                    result |-> Returned(SelectAll)]
    /\ UNCHANGED <<dogs, dogs_id_seq, users, nextOid, userCall, dogCall>>

\* dogs: SELECT * FROM dogs rejected; catch (e) logs it; return []
Query_dogs_rejected ==
    /\ response' = [op |-> "dogs", caught |-> "store-unavailable",
                    result |-> Returned(<<>>)]
    /\ UNCHANGED <<dogs, dogs_id_seq, users, nextOid, userCall, dogCall>>

(***************************************************************************)
(* Dog.walker                                                              *)
(***************************************************************************)
\* the Dog objects a walker field can be resolved on: rows are never
\* updated or deleted, so every row a query or createDog returned is a row
\* of the table
DogRoots == Range(dogs)

\* walker: (root) => User.findOne({ dogId: root.id })
Dog_walker(root) ==
    /\ root \in DogRoots
    /\ response' = [op |-> "Dog.walker", root |-> root,
                    result |-> Returned(FindOneByDogId(root.id))]
    /\ UNCHANGED <<dogs, dogs_id_seq, users, nextOid, userCall, dogCall>>

\* User.findOne rejected: nothing catches it
Dog_walker_rejected(root) ==
    /\ root \in DogRoots
    /\ response' = [op |-> "Dog.walker", root |-> root,
                    result |-> Thrown("MongoError")]
    /\ UNCHANGED <<dogs, dogs_id_seq, users, nextOid, userCall, dogCall>>

(***************************************************************************)
(* User.dogs                                                               *)
(***************************************************************************)
\* the User objects a dogs field can be resolved on: the documents the last
\* users query returned (as they were then) and the objects createUser
\* returned (dogIds: [])
UserRoots ==
    (IF response.op = "users" /\ response.result.ok
     THEN Range(response.result.value) ELSE {})
    \cup {userCall[u].result.value :
            u \in {v \in UserCalls : userCall[v].pc = "done"}}

\* JSON.stringify([...root.dogIds]).slice(1, -1) inside IN (...): the ids
\* the list spells
IdsOf(dogIds) == Range(dogIds)

\* (mutant) no length test: the SELECT is sent with an empty IN list
User_dogs_empty_queried(root) ==
    /\ root \in UserRoots
    /\ Len(root.dogIds) = 0
    /\ response' = [op |-> "User.dogs", root |-> root,
                    queries |-> 1,
                    result |-> Returned(SelectIn(IdsOf(root.dogIds)))]
    /\ UNCHANGED <<dogs, dogs_id_seq, users, nextOid, userCall, dogCall>>

\* dogs: root.dogIds.length is 0: return [] (no query)
User_dogs_empty(root) ==
    /\ root \in UserRoots
    /\ Len(root.dogIds) = 0
    /\ response' = [op |-> "User.dogs", root |-> root,
                    queries |-> 0, result |-> Returned(<<>>)]
    /\ UNCHANGED <<dogs, dogs_id_seq, users, nextOid, userCall, dogCall>>

\* dogs: SELECT * FROM dogs WHERE id IN (...) resolved; return data.rows
User_dogs(root) ==
    /\ root \in UserRoots
    /\ Len(root.dogIds) # 0
    /\ response' = [op |-> "User.dogs", root |-> root,
                    queries |-> 1,
                    result |-> Returned(SelectIn(IdsOf(root.dogIds)))]
    /\ UNCHANGED <<dogs, dogs_id_seq, users, nextOid, userCall, dogCall>>

\* dogs: the SELECT rejected: nothing catches it
User_dogs_rejected(root) ==
    /\ root \in UserRoots
    /\ Len(root.dogIds) # 0
    /\ response' = [op |-> "User.dogs", root |-> root,
                    queries |-> 1, result |-> Thrown("store-unavailable")]
    /\ UNCHANGED <<dogs, dogs_id_seq, users, nextOid, userCall, dogCall>>

Next ==
    \/ \E u \in UserCalls, n \in UserNames : createUser(u, n)
    \/ \E u \in UserCalls : createUser_saveResolved(u)
    \/ \E u \in UserCalls : createUser_saveRejected(u)
    \/ \E c \in DogCalls, n \in DogNames, b \in Breeds,
         w \in WalkerIdStrings(KnownOids) :
            createDog(c, n, b, w)
    \/ \E c \in DogCalls : createDog_queryResolved(c)
    \/ \E c \in DogCalls, e \in {"store-unavailable", "write-rejected"} :
            createDog_queryRejected(c, e)
    \/ \E c \in DogCalls : createDog_updateResolved(c)
    \/ \E c \in DogCalls : createDog_updateRejected(c)
    \/ Query_users
    \/ Query_users_rejected
    \/ Query_dogs
    \/ Query_dogs_rejected
    \/ \E root \in DogRoots : Dog_walker(root)
    \/ \E root \in DogRoots : Dog_walker_rejected(root)
    \/ \E root \in UserRoots : User_dogs_empty(root)
    \/ \E root \in UserRoots : User_dogs(root)
    \/ \E root \in UserRoots : User_dogs_rejected(root)

Spec == Init /\ [][Next]_vars

(***************************************************************************)
(* Vocabulary of the properties.                                           *)
(***************************************************************************)
\* the walkerId string s denotes the walker document u
Denotes(s, u) == ~ObjectIDThrows(s) /\ ObjectID(s) = u._id

\* the number of times x occurs in the sequence s
Count(s, x) == Cardinality({i \in 1..Len(s) : s[i] = x})

\* no createDog request is between its call and its return
Quiescent == \A c \in DogCalls : dogCall[c].pc \in {"idle", "done"}

\* no createDog request went through the catch block of its update step
NoAppendFailed == \A c \in DogCalls : dogCall[c].caughtUpdate = "none"

\* what the dogs field of the walker document u resolves to now
DogsOf(u) == IF Len(u.dogIds) = 0 THEN <<>> ELSE SelectIn(IdsOf(u.dogIds))

\* request c returns or throws in this step
Completes(c) == dogCall[c].pc # "done" /\ dogCall'[c].pc = "done"

IsUser(v) == "_id" \in DOMAIN v

(***************************************************************************)
(* C1. Cross-store referential integrity: whenever no createDog is in      *)
(* flight and no append to a walker has failed, every row whose walkerId   *)
(* denotes an existing walker occurs exactly once in that walker's dogIds. *)
(***************************************************************************)
C1_ReferentialIntegrity ==
    (Quiescent /\ NoAppendFailed) =>
        \A r \in Range(dogs) : \A u \in Range(users) :
            Denotes(r.walkerId, u) => Count(u.dogIds, r.id) = 1

\* two rows of one existing walker, both requests over and no append failed
C1_Witness ==
    /\ Quiescent /\ NoAppendFailed
    /\ \E u \in Range(users) :
        /\ Len(u.dogIds) = 2
        /\ \A r \in Range(dogs) : Denotes(r.walkerId, u)
    /\ Len(dogs) = 2

(***************************************************************************)
(* C2. Round trip: when createDog(n, b, w) returns successfully, the list  *)
(* of all dogs holds a row with name n, breed b and walkerId w, and the    *)
(* dogs field of the walker w denotes holds that row.                      *)
(***************************************************************************)
C2_RoundTrip ==
    [][\A c \in DogCalls :
        (Completes(c) /\ dogCall'[c].result.ok) =>
            \E r \in Range(SelectAll') :
                /\ r.name = dogCall[c].name
                /\ r.breed = dogCall[c].breed
                /\ r.walkerId = dogCall[c].walkerId
                /\ r = dogCall'[c].result.value
                /\ \A u \in Range(users') :
                      Denotes(dogCall[c].walkerId, u) => r \in Range(DogsOf(u)')
      ]_vars

(***************************************************************************)
(* C3. Partial failure visibility: when the insert succeeded and the       *)
(* append to the walker failed, the row exists, the walker's dogs field    *)
(* does not hold it, and createDog reports failure.                        *)
(***************************************************************************)
C3_PartialFailureReported ==
    [][\A c \in DogCalls :
        (dogCall[c].pc = "updateOne" /\ dogCall'[c].caughtUpdate # "none") =>
            /\ dogCall[c].dog \in Range(dogs')
            /\ \A u \in Range(users') :
                  Denotes(dogCall[c].dog.walkerId, u) =>
                      dogCall[c].dog \notin Range(DogsOf(u)')
            /\ dogCall'[c].pc = "done"
            /\ ~dogCall'[c].result.ok
      ]_vars

(***************************************************************************)
(* C4. Breed bound: a createDog whose breed is longer than 60 characters   *)
(* (and whose INSERT reached the table) fails with a write-rejected error, *)
(* adds no row and leaves every walker's dogIds unchanged.                 *)
(***************************************************************************)
C4_BreedBound ==
    [][\A c \in DogCalls :
        (dogCall[c].pc = "query" /\ dogCall'[c].pc # "query"
            /\ dogCall[c].breed > BreedLimit
            /\ dogCall'[c].caughtQuery # "store-unavailable") =>
            /\ dogCall'[c].result = Thrown("write-rejected")
            /\ dogs' = dogs
            /\ users' = users
      ]_vars

(***************************************************************************)
(* C5. When the INSERT of a createDog fails, createDog reports failure,    *)
(* the update of the walker is never issued and the users collection is    *)
(* left as it was.                                                         *)
(***************************************************************************)
C5_InsertFailureAborts ==
    [][\A c \in DogCalls :
        (dogCall[c].pc = "query" /\ dogCall'[c].caughtQuery # "none") =>
            /\ dogCall'[c].pc = "done"
            /\ ~dogCall'[c].result.ok
            /\ ~dogCall'[c].updateIssued
            /\ users' = users
            /\ dogs' = dogs
      ]_vars

\* a request whose INSERT was rejected is over, beside an existing walker
C5_Witness ==
    /\ users # <<>>
    /\ \E c \in DogCalls :
        /\ dogCall[c].pc = "done"
        /\ dogCall[c].caughtQuery = "write-rejected"
    /\ \E c \in DogCalls :
        /\ dogCall[c].pc = "done"
        /\ dogCall[c].caughtQuery = "store-unavailable"

(***************************************************************************)
(* C6. Dog.walker resolves by identity: for a row whose walkerId denotes   *)
(* an existing walker, the walker field is that walker and no other.       *)
(***************************************************************************)
C6_WalkerByIdentity ==
    (response.op = "Dog.walker" /\ response.result.ok) =>
        \A u \in Range(users) :
            Denotes(response.root.walkerId, u) =>
                /\ IsUser(response.result.value)
                /\ response.result.value._id = u._id

(***************************************************************************)
(* C7. Empty-owner short-circuit: the dogs field of a walker whose dogIds  *)
(* is empty is the empty sequence, obtained without a query to the table.  *)
(***************************************************************************)
C7_EmptyOwnerShortCircuit ==
    (response.op = "User.dogs" /\ Len(response.root.dogIds) = 0) =>
        /\ response.result = Returned(<<>>)
        /\ response.queries = 0

\* the field was resolved on an object createUser returned, while the table
\* already had rows
C7_Witness ==
    /\ response.op = "User.dogs"
    /\ Len(response.root.dogIds) = 0
    /\ dogs # <<>>
    /\ \E u \in UserCalls : /\ userCall[u].pc = "done"
                            /\ userCall[u].result.value = response.root

(***************************************************************************)
(* C8. When user.save() fails, createUser reports the failure: its caller  *)
(* receives no walker object, and no walker is added to the collection.    *)
(***************************************************************************)
C8_SaveFailureReported ==
    \A u \in UserCalls :
        (userCall[u].pc = "done" /\ userCall[u].caught # "none") =>
            /\ ~userCall[u].result.ok
            /\ \A d \in Range(users) :
                  ~(userCall[u].result.ok /\ d._id = userCall[u].result.value._id)

(***************************************************************************)
(* C9. When the full scan of the top-level dogs query fails, the caller    *)
(* gets an error for the field, not a successful list.                     *)
(***************************************************************************)
C9_ScanFailureSurfaces ==
    (response.op = "dogs" /\ response.caught # "none") => ~response.result.ok

(***************************************************************************)
(* C10. Ordering in createDog: the update of the walker is issued only     *)
(* after the INSERT of the same request resolved with the new row.         *)
(***************************************************************************)
C10_AppendAfterInsert ==
    \A c \in DogCalls :
        dogCall[c].updateIssued =>
            /\ dogCall[c].caughtQuery = "none"
            /\ IF dogCall[c].pc = "updateOne"
               THEN dogCall[c].dog \in Range(dogs)
               ELSE /\ dogCall[c].result.ok
                    /\ dogCall[c].result.value \in Range(dogs)

\* one request awaits its update while another's INSERT was rejected
C10_Witness ==
    /\ \E c \in DogCalls : /\ dogCall[c].pc = "updateOne"
                           /\ dogCall[c].updateIssued
    /\ \E c \in DogCalls : /\ dogCall[c].pc = "done"
                           /\ dogCall[c].caughtQuery # "none"

(***************************************************************************)
(* C11. Concurrent appends are not lost: whatever the interleaving of the  *)
(* createDog requests, once requests whose store calls all succeeded are   *)
(* over, the dogIds of the walker each of them names holds the id of the   *)
(* row it inserted.                                                        *)
(***************************************************************************)
\* request c is over and none of its store calls failed
Succeeded(c) ==
    /\ dogCall[c].pc = "done"
    /\ dogCall[c].caughtQuery = "none"
    /\ dogCall[c].caughtUpdate = "none"

C11_NoLostAppend ==
    \A c \in DogCalls :
        Succeeded(c) =>
            \A u \in Range(users) :
                Denotes(dogCall[c].result.value.walkerId, u) =>
                    dogCall[c].result.value.id \in Range(u.dogIds)

\* two requests for one walker overlapped: both succeeded and the row
\* inserted second was appended first
C11_Witness ==
    /\ \A c \in DogCalls : Succeeded(c)
    /\ \E u \in Range(users) :
        /\ Len(u.dogIds) = 2
        /\ u.dogIds[1] > u.dogIds[2]
        /\ \A c \in DogCalls : Denotes(dogCall[c].result.value.walkerId, u)

(***************************************************************************)
(* C12. Visible gap between the two writes: while a createDog request is   *)
(* between its INSERT and its update, the row is in the table, the dogs    *)
(* field of the walker it names does not hold it, and the reads (the dogs  *)
(* query, the users query) can be taken: nothing blocks them.              *)
(***************************************************************************)
C12_GapVisible ==
    \A c \in DogCalls :
        dogCall[c].pc = "updateOne" =>
            /\ dogCall[c].dog \in Range(SelectAll)
            /\ \A u \in Range(users) :
                  Denotes(dogCall[c].dog.walkerId, u) =>
                      dogCall[c].dog \notin Range(DogsOf(u))
            /\ ENABLED Query_dogs
            /\ ENABLED Query_users

\* a dogs query answered inside the gap: its result holds the row of a
\* request that still awaits its update, and the walker's dogIds lacks it
C12_Witness ==
    \E c \in DogCalls :
        /\ dogCall[c].pc = "updateOne"
        /\ response.op = "dogs"
        /\ dogCall[c].dog \in Range(response.result.value)
        /\ \E u \in Range(users) :
            /\ Denotes(dogCall[c].dog.walkerId, u)
            /\ dogCall[c].dog.id \notin Range(u.dogIds)

(***************************************************************************)
(* C13. The dogs field of a walker object whose dogIds is not empty sends  *)
(* exactly one query to the table and, when the query is answered, returns *)
(* exactly the rows whose id is in that dogIds: each such row once, and no *)
(* other row.                                                              *)
(***************************************************************************)
C13_DogsExactlyTheIds ==
    (response.op = "User.dogs" /\ Len(response.root.dogIds) # 0) =>
        /\ response.queries = 1
        /\ response.result.ok =>
            /\ Range(response.result.value) =
                  {r \in Range(dogs) : r.id \in Range(response.root.dogIds)}
            /\ Cardinality(Range(response.result.value)) =
                  Len(response.result.value)
            /\ Len(response.result.value) = Len(response.root.dogIds)

\* the field returned the one row of its walker while the table holds
\* another row as well
C13_Witness ==
    /\ response.op = "User.dogs"
    /\ Len(response.root.dogIds) = 1
    /\ response.result.ok
    /\ Len(response.result.value) = 1
    /\ response.result.value[1].id = response.root.dogIds[1]
    /\ Len(dogs) = 2

(***************************************************************************)
(* C14. Walker lifecycle: a walker is born with empty dogIds; in every     *)
(* step an existing walker stays, keeps its _id and its name, and its      *)
(* dogIds either stays or grows at its end (the old sequence is a prefix   *)
(* of the new one); and a step that changes an existing walker is the      *)
(* resolved update of a createDog request.                                 *)
(***************************************************************************)
IsPrefix(s, t) == Len(s) <= Len(t) /\ \A i \in 1..Len(s) : s[i] = t[i]

C14_WalkerLifecycle ==
    [][/\ Len(users) <= Len(users')
       /\ \A i \in 1..Len(users) :
            /\ users'[i]._id = users[i]._id
            /\ users'[i].name = users[i].name
            /\ IsPrefix(users[i].dogIds, users'[i].dogIds)
       /\ \A i \in (Len(users) + 1)..Len(users') : users'[i].dogIds = <<>>
       /\ (\E i \in 1..Len(users) : users'[i] # users[i]) =>
            \E c \in DogCalls :
                /\ dogCall[c].pc = "updateOne"
                /\ dogCall'[c].pc = "done"
                /\ dogCall'[c].caughtUpdate = "none"
                /\ \A d \in DogCalls \ {c} : dogCall'[d] = dogCall[d]
      ]_vars

\* a walker that was born empty has been appended to twice, beside a
\* walker that is still as it was born
C14_Witness ==
    /\ Len(users) = 2
    /\ \E i, j \in 1..Len(users) :
        /\ Len(users[i].dogIds) = 2
        /\ users[j].dogIds = <<>>

(***************************************************************************)
(* C15. walkerId pass-through: whatever walkerId string a createDog is     *)
(* given (well-formed or not, denoting a walker or not), the row its       *)
(* INSERT adds stores exactly that string; and the steps of a request      *)
(* whose walkerId denotes no existing walker change no walker document.    *)
(***************************************************************************)
DenotesNoWalker(s) == \A u \in Range(users) : ~Denotes(s, u)

C15_WalkerIdPassThrough ==
    [][\A c \in DogCalls :
        /\ (dogCall[c].pc = "query" /\ dogCall'[c].pc # "query"
                /\ dogCall'[c].caughtQuery = "none") =>
              /\ Len(dogs') = Len(dogs) + 1
              /\ dogs'[Len(dogs')].walkerId = dogCall[c].walkerId
        /\ (dogCall[c].pc \in {"query", "updateOne"}
                /\ dogCall'[c] # dogCall[c]
                /\ DenotesNoWalker(dogCall[c].walkerId)) =>
              users' = users
      ]_vars

\* rows given an upper-case id and a string that is no ObjectId, stored as
\* given, beside a walker that no request touched
C15_Witness ==
    /\ \E r \in Range(dogs) : r.walkerId.form = "HEX"
    /\ \E r \in Range(dogs) : r.walkerId = BadString
    /\ users # <<>>
    /\ \A u \in Range(users) : u.dogIds = <<>>

(***************************************************************************)
(* C16. No dangling or foreign references: in every reachable state each   *)
(* integer in a walker's dogIds is the id of a row of the table, and the   *)
(* walkerId of that row is the identity of that walker (the ObjectId the   *)
(* walkerId string spells is the walker's _id).                            *)
(***************************************************************************)
C16_NoDanglingOrForeign ==
    \A u \in Range(users) :
        \A id \in Range(u.dogIds) :
            \E r \in Range(dogs) : r.id = id /\ Denotes(r.walkerId, u)

\* two walkers that each own a row, one of the rows naming its walker in
\* upper case
C16_Witness ==
    /\ Len(users) = 2
    /\ \A u \in Range(users) : Len(u.dogIds) = 1
    /\ \E r \in Range(dogs) : r.walkerId.form = "HEX"

(***************************************************************************)
(* C17. No duplicate references: in every reachable state no row id occurs *)
(* more than once in the dogIds of all walkers taken together.             *)
(***************************************************************************)
C17_NoDuplicateReferences ==
    \A i, j \in 1..Len(users) :
        \A p \in 1..Len(users[i].dogIds) : \A q \in 1..Len(users[j].dogIds) :
            users[i].dogIds[p] = users[j].dogIds[q] => (i = j /\ p = q)

\* a walker holds the id of a request that succeeded, beside a request
\* whose update failed
C17_Witness ==
    /\ \E u \in Range(users) : Len(u.dogIds) = 1
    /\ \E c \in DogCalls : dogCall[c].caughtUpdate = "MongoError"
    /\ \E c \in DogCalls : dogCall[c].pc = "done" /\ Succeeded(c)

====
